---- MODULE Spec2Model ----
(***************************************************************************)
(* Model of the scrape orchestration engine of loomi                       *)
(* (LoomiScraper 4/scraper_engine.py): AdaptiveRateLimiter,                *)
(* EnvironmentProbe, the two strategies as seen by the manager, and        *)
(* ScrapeManager.run with its worker pool and incremental checkpoint.      *)
(*                                                                         *)
(* Delays are integers in hundredths of a second (0.3 s = 30); the         *)
(* multipliers 0.9, 2 and 1.2 are applied as *9/10, *2 and *12/10.         *)
(***************************************************************************)
EXTENDS Integers, Sequences, FiniteSets, TLC

\* ------------------------------------------------------------------ bounds
NumLimiterThreads == 2      \* threads calling the rate limiter concurrently
NumUrls           == 3      \* product URLs that exist on the site
NumListings       == 2      \* len(site.collection_urls)
MaxWorkers        == 2      \* largest max_workers the manager is built with
MaxSaveInterval   == 2      \* largest save_interval the manager is built with

\* ------------------------------------------------------- program constants
DEFAULT_MIN_DELAY == 30     \* min_delay defaults to 0.3 s
DEFAULT_MAX_DELAY == 200    \* max_delay defaults to 2.0 s
SpeedUpStreak     == 10     \* successes needed for one speed-up
ProductLimit      == 100    \* collection stops once this many URLs are held
MAX_RETRIES       == 3      \* max_retries of RequestsStrategy.scrape_product
MaxProductCalls   == 2      \* scrape_product calls followed one after another
MaxProbeCalls     == 3      \* EnvironmentProbe checks made one after another
MaxLimiterCalls   == 1      \* limiter methods called within one scrape_product
MaxSessionCalls   == 4      \* calls made on one PlaywrightStrategy

\* A memo field is None until set, then holds <<value>>
None == <<>>
Some(v) == <<v>>
ValueOf(m) == m[1]

VARIABLES
    \* AdaptiveRateLimiter
    min_delay, max_delay, current_delay, consecutive_successes,
    rl_lock,            \* holder of AdaptiveRateLimiter.lock, 0 when free
    rl_pc,              \* per thread: "idle", an operation name, or "sleeping"
    \* EnvironmentProbe
    is_replit,          \* bool(os.environ.get("REPL_ID"))
    pw_installed,       \* whether `from playwright.sync_api import ...` works
    playwright_cache,   \* EnvironmentProbe._playwright_available
    browser_cache,      \* EnvironmentProbe._browser_available
    launch_attempts,    \* number of launches the probe performed
    ba_reads,           \* values returned so far by browser_available
    \* SiteProfile and constructor arguments of ScrapeManager
    strategies, max_workers, skip_existing, incremental, save_interval,
    \* ScrapeManager fields
    all_records, failed_products, skipped_products, strategy_used,
    existing_urls, products_processed, records_lock, client_open,
    \* locals of run() and _run_with_strategy()
    pc, viable, cur, listing, all_product_urls, product_urls, records,
    task, result, ret,
    \* strategy-held browser session and the checkpoint side file
    browser_held, partial_file,
    \* what _show_environment_limitations printed
    diagnostic,
    \* whether _load_existing_urls failed to read the output file (absent,
    \* unreadable, or an exception part-way), kept until the skip-set is
    \* first applied
    load_failed,
    \* one scrape_product call followed through its attempts
    sp_kind,            \* the strategy variant called
    sp_pc,              \* "idle", "request" (about to fetch) or "returned"
    attempt,            \* loop variable of RequestsStrategy.scrape_product
    sp_events,          \* what the call did so far, as <<name, argument>> pairs
    sp_result,          \* "none", "records" or "empty"
    sp_cause,           \* the response that ended the call
    sp_delay_before,    \* current_delay when the call started
    sp_calls,           \* scrape_product calls started
    \* the EnvironmentProbe checks followed one by one
    import_broken,      \* importing playwright.sync_api raises something
                        \*  other than ImportError
    secret_set,         \* bool(os.environ.get(key)) for the key asked about
    probe_log,          \* the checks made so far, in order
    probe_out,          \* the booleans the last one returned, <<>> when it
                        \*  raised
    probe_raised,       \* whether the last one raised
    \* history
    listing_results,    \* [url -> 1 when one listing visited in this
                        \*  attempt returned it, 2 when several did]
    listing_failed,     \* whether the last scrape_collection call ended in
                        \*  its except clause
    dispatch_total,     \* scrape_product calls made so far, over all the
                        \*  strategies attempted
    lock_io,            \* the kinds of output written so far by a thread
                        \*  holding _records_lock
    candidates,         \* all_product_urls before skip-set filtering
    dispatched,         \* [url -> scrape_product calls in this attempt]
    collected_by,       \* strategy indexes whose scrape_collection was called
    scraped_by,         \* strategy indexes whose scrape_product was called
    yielded,            \* strategy indexes whose scrape_product returned records
    outcome,            \* [url -> what scrape_product did in this attempt]
    failures_seen,      \* scrape_product calls that came back without records
    gathered_products,  \* products counted in products_processed
    cleanups,           \* [strategy index -> number of cleanup() calls]
    \* the threads of one run, inside scrape_product
    limiter_calls,      \* [url -> limiter methods called so far by the
                        \*  scrape_product call for it]
    \* one PlaywrightStrategy; an object is known by the number of the
    \* _ensure_browser call that made it, 0 stands for None
    pw_playwright,      \* self._playwright
    pw_browser,         \* self._browser
    pw_context,         \* self._context
    pw_page,            \* self._page
    pw_made,            \* sync_playwright().start() calls that returned
    pw_open,            \* <<kind, number>> of the objects made and not yet
                        \*  closed or stopped
    pw_log              \* the calls made on the strategy, in order

limiter_vars == <<min_delay, max_delay, current_delay, consecutive_successes,
                  rl_lock, rl_pc>>
probe_vars   == <<is_replit, pw_installed, playwright_cache,
                  browser_cache, launch_attempts, ba_reads>>
config_vars  == <<strategies, max_workers, skip_existing, incremental,
                  save_interval>>
manager_vars == <<all_records, failed_products, skipped_products, strategy_used,
                  existing_urls, products_processed, records_lock, client_open>>
local_vars   == <<pc, viable, cur, listing, all_product_urls, product_urls,
                  records, task, result, ret>>
resource_vars == <<browser_held, partial_file>>
report_vars == <<diagnostic, load_failed>>
history_vars == <<listing_results, listing_failed, lock_io, dispatch_total,
                  candidates, dispatched, collected_by,
                  scraped_by, yielded, outcome, failures_seen, gathered_products, cleanups>>
run_vars == <<probe_vars, config_vars, manager_vars, local_vars, resource_vars,
              report_vars, history_vars>>
product_vars == <<sp_kind, sp_pc, attempt, sp_events, sp_result, sp_cause,
                  sp_delay_before, sp_calls>>
check_vars == <<import_broken, secret_set, probe_log, probe_out, probe_raised>>
pool_vars == <<limiter_calls>>
session_vars == <<pw_playwright, pw_browser, pw_context, pw_page, pw_made,
                  pw_open, pw_log>>
vars == <<limiter_vars, run_vars, product_vars, check_vars, pool_vars,
          session_vars>>

\* What a step of run() leaves alone, what a limiter method leaves alone, and
\* what a scrape_product call leaves alone
beside_run     == <<limiter_vars, product_vars, check_vars, pool_vars,
                    session_vars>>
beside_limiter == <<run_vars, product_vars, check_vars, pool_vars,
                    session_vars>>
beside_product == <<run_vars, check_vars, pool_vars, session_vars>>

Min(a, b) == IF a <= b THEN a ELSE b
Max(a, b) == IF a >= b THEN a ELSE b

(***************************************************************************)
(* AdaptiveRateLimiter                                                     *)
(***************************************************************************)
LimiterThreads == 1..NumLimiterThreads

\* (min_delay, max_delay) pairs a limiter is constructed with
DelayConfigs == { <<DEFAULT_MIN_DELAY, DEFAULT_MAX_DELAY>>, <<30, 30>>,
                  <<100, 150>>, <<1, 7>>, <<0, 7>> }

LimiterOps == {"record_success", "record_rate_limit", "record_error", "wait",
               "get_delay"}

\* (variant: the factor above one)
SpeedUp_growing(d, lo) == Max(lo, (d * 11) \div 10)

\* current_delay * 0.9, floored at min_delay
SpeedUp(d, lo) == Max(lo, (d * 9) \div 10)

\* (variant: the doubling without the cap)
RateLimitSlowDown_uncapped(d, hi) == d * 2

\* current_delay * 2, capped at max_delay
RateLimitSlowDown(d, hi) == Min(hi, d * 2)

\* (variant: the factor below one)
ErrorSlowDown_shrinking(d, hi) == Min(hi, (d * 8) \div 10)

\* current_delay * 1.2, capped at max_delay
ErrorSlowDown(d, hi) == Min(hi, (d * 12) \div 10)

\* (variant: the speed-up comes one success late)
StreakComplete_late(n) == n > SpeedUpStreak

\* `if self.consecutive_successes >= 10:` after the increment
StreakComplete(n) == n >= SpeedUpStreak

\* (variant: a slow-down leaves the streak running)
StreakAfterSlowDown_kept(n) == n

\* `self.consecutive_successes = 0` in record_rate_limit and record_error
StreakAfterSlowDown(n) == 0

LimiterInit ==
    /\ \E c \in DelayConfigs : min_delay = c[1] /\ max_delay = c[2]
    /\ current_delay = min_delay
    /\ consecutive_successes = 0
    /\ rl_lock = 0
    /\ rl_pc = [t \in LimiterThreads |-> "idle"]

\* `with self.lock:` at the head of every limiter method
RL_Acquire(t, op) ==
    /\ rl_pc[t] = "idle"
    /\ rl_lock = 0
    /\ rl_lock' = t
    /\ rl_pc' = [rl_pc EXCEPT ![t] = op]
    /\ UNCHANGED <<min_delay, max_delay, current_delay, consecutive_successes>>

record_success(t) ==
    /\ rl_pc[t] = "record_success" /\ rl_lock = t
    /\ IF StreakComplete(consecutive_successes + 1)
         THEN /\ current_delay' = SpeedUp(current_delay, min_delay)
              /\ consecutive_successes' = 0
         ELSE /\ consecutive_successes' = consecutive_successes + 1
              /\ UNCHANGED current_delay
    /\ rl_lock' = 0
    /\ rl_pc' = [rl_pc EXCEPT ![t] = "idle"]
    /\ UNCHANGED <<min_delay, max_delay>>

record_rate_limit(t) ==
    /\ rl_pc[t] = "record_rate_limit" /\ rl_lock = t
    /\ current_delay' = RateLimitSlowDown(current_delay, max_delay)
    /\ consecutive_successes' = StreakAfterSlowDown(consecutive_successes)
    /\ rl_lock' = 0
    /\ rl_pc' = [rl_pc EXCEPT ![t] = "idle"]
    /\ UNCHANGED <<min_delay, max_delay>>

record_error(t) ==
    /\ rl_pc[t] = "record_error" /\ rl_lock = t
    /\ current_delay' = ErrorSlowDown(current_delay, max_delay)
    /\ consecutive_successes' = StreakAfterSlowDown(consecutive_successes)
    /\ rl_lock' = 0
    /\ rl_pc' = [rl_pc EXCEPT ![t] = "idle"]
    /\ UNCHANGED <<min_delay, max_delay>>

\* wait(): read the delay under the lock, release it, then sleep
wait_read(t) ==
    /\ rl_pc[t] = "wait" /\ rl_lock = t
    /\ rl_lock' = 0
    /\ rl_pc' = [rl_pc EXCEPT ![t] = "sleeping"]
    /\ UNCHANGED <<min_delay, max_delay, current_delay, consecutive_successes>>

\* time.sleep(delay + jitter) returns
wait_wake(t) ==
    /\ rl_pc[t] = "sleeping"
    /\ rl_pc' = [rl_pc EXCEPT ![t] = "idle"]
    /\ UNCHANGED <<min_delay, max_delay, current_delay, consecutive_successes,
                   rl_lock>>

get_delay(t) ==
    /\ rl_pc[t] = "get_delay" /\ rl_lock = t
    /\ rl_lock' = 0
    /\ rl_pc' = [rl_pc EXCEPT ![t] = "idle"]
    /\ UNCHANGED <<min_delay, max_delay, current_delay, consecutive_successes>>

(***************************************************************************)
(* EnvironmentProbe                                                        *)
(***************************************************************************)
\* The probe's memo fields and what the reads so far did, as one value.
ProbeState == [pwc |-> playwright_cache, bc |-> browser_cache,
               la |-> launch_attempts, reads |-> ba_reads]

\* playwright_available: memoised import check
ReadPlaywright(p, installed) ==
    IF p.pwc = None THEN [p EXCEPT !.pwc = Some(installed)] ELSE p

\* (variant: browser_available without the is_replit branch)
ReadBrowser_ignoring_replit(p, replit, installed, ok) ==
    LET q == IF p.bc = None THEN ReadPlaywright(p, installed) ELSE p
        r == IF q.bc # None THEN q
             ELSE IF ~ValueOf(q.pwc) THEN [q EXCEPT !.bc = Some(FALSE)]
             ELSE [q EXCEPT !.bc = Some(ok), !.la = q.la + 1]
    IN  [r EXCEPT !.reads = r.reads \cup {ValueOf(r.bc)}]

\* browser_available: memoised; False without a launch when Playwright is
\* missing or the process runs in Replit, otherwise launch and close firefox
ReadBrowser(p, replit, installed, ok) ==
    LET q == IF p.bc = None THEN ReadPlaywright(p, installed) ELSE p
        r == IF q.bc # None THEN q
             ELSE IF ~ValueOf(q.pwc) THEN [q EXCEPT !.bc = Some(FALSE)]
             ELSE IF replit THEN [q EXCEPT !.bc = Some(FALSE)]
             ELSE [q EXCEPT !.bc = Some(ok), !.la = q.la + 1]
    IN  [r EXCEPT !.reads = r.reads \cup {ValueOf(r.bc)}]

\* The value the last read of browser_available returned
BrowserValue(p) == ValueOf(p.bc)

(***************************************************************************)
(* Strategies and site profile                                             *)
(***************************************************************************)
Urls == 1..NumUrls

\* SiteProfile.strategies, in priority order
StrategyLists == { <<"requests">>, <<"playwright">>,
                   <<"playwright", "requests">>, <<"requests", "playwright">> }

requires_browser(kind) == kind = "playwright"

\* (variant: every strategy claims support)
Supports_always(kind, p, replit, installed, ok) ==
    [probe |-> p, value |-> TRUE]

\* strategy.supports(env), reading the probe; returns the probe after the read
\* and the answer
Supports(kind, p, replit, installed, ok) ==
    IF kind = "requests"
      THEN [probe |-> p, value |-> TRUE]
      ELSE LET q == ReadBrowser(p, replit, installed, ok)
           IN  [probe |-> q, value |-> BrowserValue(q)]

\* get_viable_strategies: indexes of site.strategies that support the
\* environment, in declared order
RECURSIVE ViableFrom(_, _, _, _, _, _, _)
ViableFrom(i, strats, acc, p, replit, installed, ok) ==
    IF i > Len(strats) THEN [probe |-> p, viable |-> acc]
    ELSE LET s == Supports(strats[i], p, replit, installed, ok)
         IN  ViableFrom(i + 1, strats,
                        IF s.value THEN Append(acc, i) ELSE acc,
                        s.probe, replit, installed, ok)

get_viable_strategies(strats, p, replit, installed, ok) ==
    ViableFrom(1, strats, <<>>, p, replit, installed, ok)

\* The records the extraction callback produces for a product page: one per
\* colour variant; product 1 has two variants
ProductRecords(u) == IF u = 1 THEN << <<u, 1>>, <<u, 2>> >> ELSE << <<u, 1>> >>

\* sorted(all_product_urls)
RECURSIVE SortedSeq(_)
SortedSeq(S) ==
    IF S = {} THEN <<>>
    ELSE LET m == CHOOSE x \in S : \A y \in S : x <= y
         IN  <<m>> \o SortedSeq(S \ {m})

\* rows of the existing output file, in file order
ExistingFiles == { 1..k : k \in 0..NumUrls }

\* _load_existing_urls: the rows read before the reader failed, all of them
\* when it did not fail
LoadOutcomes(file) == { 1..j : j \in 0..Cardinality(file) }

\* Whether the load failed, given the URLs of the file and the URLs loaded:
\* it did when rows are missing; when none is missing the file may have been
\* absent or unreadable (nothing to load) or broken after its last row
LoadFailures(file, loaded) == IF loaded # file THEN {TRUE} ELSE BOOLEAN

(***************************************************************************)
(* ScrapeManager                                                           *)
(***************************************************************************)
StrategyIndexes == 1..Len(strategies)

\* The strategy run() is attempting
CurrentStrategy == viable[cur]
CurrentKind == strategies[CurrentStrategy]

NoTasks == [u \in Urls |-> "none"]
NoResults == [u \in Urls |-> <<>>]
NoDispatch == [u \in Urls |-> 0]
NoOutcome == [u \in Urls |-> "none"]

\* (incremental, save_interval) pairs the manager is constructed with
SaveConfigs == {<<FALSE, 1>>} \cup {<<TRUE, k>> : k \in 1..MaxSaveInterval}

\* The tally of returned URLs before the first listing is visited, and after
\* one more listing returned `urls`
NoListings == [u \in {} |-> 0]
AddListing(tally, urls) ==
    [u \in (DOMAIN tally) \cup urls |->
       Min(2, (IF u \in DOMAIN tally THEN tally[u] ELSE 0)
                + (IF u \in urls THEN 1 ELSE 0))]

\* ScrapeManager.__init__ on a fresh process; the limiter it creates uses the
\* default delays. The pool is sequential or of the greatest size followed
ManagerInit ==
    /\ is_replit \in BOOLEAN /\ pw_installed \in BOOLEAN
    /\ playwright_cache = None /\ browser_cache = None
    /\ launch_attempts = 0 /\ ba_reads = {}
    /\ strategies \in StrategyLists
    /\ max_workers \in {1, MaxWorkers}
    /\ skip_existing \in BOOLEAN
    /\ \E c \in SaveConfigs : incremental = c[1] /\ save_interval = c[2]
    /\ all_records = <<>> /\ failed_products = 0 /\ skipped_products = 0
    /\ strategy_used = 0 /\ existing_urls = {} /\ products_processed = 0
    /\ records_lock = 0 /\ client_open = TRUE
    /\ pc = "start" /\ viable = <<>> /\ cur = 0 /\ listing = 0
    /\ all_product_urls = {} /\ product_urls = <<>> /\ records = <<>>
    /\ task = NoTasks /\ result = NoResults /\ ret = <<>>
    /\ browser_held = [i \in StrategyIndexes |-> FALSE]
    /\ partial_file = None
    /\ diagnostic = {} /\ load_failed = FALSE
    /\ listing_results = NoListings /\ listing_failed = FALSE
    /\ lock_io = {} /\ dispatch_total = 0
    /\ candidates = {} /\ collected_by = {} /\ scraped_by = {} /\ yielded = {}
    /\ dispatched = NoDispatch
    /\ outcome = NoOutcome
    /\ failures_seen = 0 /\ gathered_products = {}
    /\ cleanups = [i \in StrategyIndexes |-> 0]

DefaultLimiterInit ==
    /\ min_delay = DEFAULT_MIN_DELAY /\ max_delay = DEFAULT_MAX_DELAY
    /\ current_delay = DEFAULT_MIN_DELAY
    /\ consecutive_successes = 0
    /\ rl_lock = 0
    /\ rl_pc = [t \in LimiterThreads |-> "idle"]

SetProbe(p) ==
    /\ playwright_cache' = p.pwc
    /\ browser_cache' = p.bc
    /\ launch_attempts' = p.la
    /\ ba_reads' = p.reads
    /\ UNCHANGED <<is_replit, pw_installed>>

\* _show_environment_limitations: reads is_replit, playwright_available and,
\* when Playwright is installed, browser_available
ShowLimitations(p, replit, installed, ok) ==
    LET q == ReadPlaywright(p, installed)
    IN  IF ValueOf(q.pwc) THEN ReadBrowser(q, replit, installed, ok) ELSE q

\* (variant: the Replit line is left out)
Limitations_silent_on_replit(replit, playwright, browser) ==
    IF ~playwright THEN {"Playwright not installed"}
    ELSE IF ~browser THEN {"browser cannot be launched"}
    ELSE {}

\* The lines _show_environment_limitations prints, given what the probe
\* answers
Limitations(replit, playwright, browser) ==
    (IF replit THEN {"running in Replit"} ELSE {})
      \cup (IF ~playwright THEN {"Playwright not installed"}
            ELSE IF ~browser THEN {"browser cannot be launched"}
            ELSE {})

\* run(), up to the strategy loop: log the environment, load the skip-set,
\* compute the viable strategies, return [] when there is none
RunStart ==
    /\ pc = "start"
    /\ \E launch_ok \in BOOLEAN :
         LET p1 == ReadBrowser(ReadPlaywright(ProbeState, pw_installed),
                               is_replit, pw_installed, launch_ok)
             v  == get_viable_strategies(strategies, p1, is_replit,
                                         pw_installed, launch_ok)
         IN  /\ viable' = v.viable
             /\ IF v.viable = <<>>
                  THEN LET q == ShowLimitations(v.probe, is_replit,
                                                pw_installed, launch_ok)
                       IN  /\ SetProbe(q)
                           /\ diagnostic' = Limitations(is_replit,
                                                        ValueOf(q.pwc),
                                                        ValueOf(q.bc))
                           /\ pc' = "returned"
                           /\ UNCHANGED <<cur, listing>>
                  ELSE /\ SetProbe(v.probe)
                       /\ UNCHANGED diagnostic
                       /\ pc' = "collect"
                       /\ cur' = 1
                       /\ listing' = 1
    /\ IF skip_existing
         THEN \E file \in ExistingFiles : \E e \in LoadOutcomes(file) :
                /\ existing_urls' = e
                /\ load_failed' \in LoadFailures(file, e)
         ELSE UNCHANGED <<existing_urls, load_failed>>
    /\ ret' = <<>>
    /\ UNCHANGED <<config_vars, all_records, failed_products, skipped_products,
                   strategy_used, products_processed, records_lock, client_open,
                   all_product_urls, product_urls, records, task, result,
                   resource_vars, history_vars>>

\* (variant: the listing's URLs replace the set instead of joining it)
Merge_overwrite(held, urls) == urls

\* all_product_urls.update(urls)
Merge(held, urls) == held \cup urls

\* Where a scrape_collection call can fail: before the first URL is added
\* (browser start, fetch, status, parse) or while the links are being added
\* (a href urljoin rejects, a link the browser lost)
ListingFailures == {"none", "early", "midway"}

\* What scrape_collection returns (`return product_urls` after the except
\* clause) for the pages it may be given: all the product URLs of the page,
\* none when it failed early, and the ones added before the failure when it
\* failed midway, followed here for a failure at the second link
Returned(pages, failure) ==
    CASE failure = "none"   -> pages
      [] failure = "early"  -> {{}}
      [] failure = "midway" ->
           { {CHOOSE u \in page : \A v \in page : u <= v} :
               page \in {q \in pages : Cardinality(q) >= 2} }

\* One iteration of the listing loop of _run_with_strategy:
\* strategy.scrape_collection on the next listing page, merge, check the limit
CollectFrom(pages, failures) ==
    /\ pc = "collect"
    /\ \E ok \in BOOLEAN, failure \in failures :
       \E urls \in Returned(pages, failure) :
         LET held == IF requires_browser(CurrentKind)
                       THEN browser_held[CurrentStrategy] \/ ok
                       ELSE FALSE
             merged == Merge(all_product_urls, urls)
         IN  /\ requires_browser(CurrentKind) /\ browser_held[CurrentStrategy]
                  => ok
             /\ ~requires_browser(CurrentKind) => ok
             /\ requires_browser(CurrentKind) /\ ~held => failure = "early"
             /\ listing_failed' = (failure # "none")
             /\ browser_held' = [browser_held EXCEPT ![CurrentStrategy] = held]
             /\ all_product_urls' = merged
             /\ listing_results' = AddListing(listing_results, urls)
             /\ IF Cardinality(merged) >= ProductLimit \/ listing = NumListings
                  THEN pc' = "filter" /\ UNCHANGED listing
                  ELSE listing' = listing + 1 /\ UNCHANGED pc
    /\ collected_by' = collected_by \cup {CurrentStrategy}
    /\ UNCHANGED <<probe_vars, config_vars, manager_vars, viable, cur,
                   product_urls, records, task, result, ret, partial_file,
                   candidates, dispatched, scraped_by, yielded, outcome,
                   failures_seen, gathered_products, cleanups>>
    /\ UNCHANGED <<diagnostic, load_failed, lock_io, dispatch_total>>

\* The listing pages of a small catalogue: any set of its product URLs. A
\* listing that failed midway leaves the run where a page of one product URL
\* leaves it, so only the early failure is told apart here
Collect == CollectFrom(SUBSET Urls, {"none", "early"})

\* Listing pages of a catalogue around the product limit in size
LargePages == { {}, 1..(ProductLimit - 1), 1..ProductLimit,
                (ProductLimit - 1)..(ProductLimit + 1),
                1..(ProductLimit + 1) }

CollectLarge == CollectFrom(LargePages, ListingFailures)

\* (variant: the skip-set is not subtracted)
SkipFilter_keepall(collected, skipping, existing) == collected

\* all_product_urls - existing_urls when a skip-set was loaded
SkipFilter(collected, skipping, existing) ==
    IF skipping /\ existing # {} THEN collected \ existing ELSE collected

\* _run_with_strategy after the listing loop: subtract the skip-set, return []
\* when nothing is left, otherwise sort and hand every URL to the dispatcher
Filter ==
    /\ pc = "filter"
    /\ LET remaining == SkipFilter(all_product_urls, skip_existing, existing_urls)
       IN  /\ candidates' = all_product_urls
           /\ all_product_urls' = remaining
           /\ IF skip_existing /\ existing_urls # {}
                THEN skipped_products' = Cardinality(all_product_urls)
                                           - Cardinality(remaining)
                ELSE UNCHANGED skipped_products
           /\ IF remaining = {}
                THEN /\ pc' = "attempt_end"
                     /\ UNCHANGED <<product_urls, task>>
                ELSE /\ product_urls' = SortedSeq(remaining)
                     /\ pc' = "dispatch"
                     /\ task' = [u \in Urls |->
                                  IF u \in remaining THEN "queued" ELSE "none"]
    /\ UNCHANGED <<probe_vars, config_vars, all_records, failed_products,
                   strategy_used, existing_urls, products_processed,
                   records_lock, client_open, viable, cur, listing, records,
                   result, ret, resource_vars, dispatched, collected_by,
                   scraped_by, yielded, outcome, failures_seen,
                   gathered_products, cleanups>>
    /\ UNCHANGED <<diagnostic, lock_io, dispatch_total>> /\ load_failed' = FALSE
    /\ listing_results' = NoListings /\ listing_failed' = FALSE

\* (variant: every strategy goes through the pool)
RunsSequentially_never(kind) == FALSE

\* `if strategy.requires_browser:` chooses the sequential loop over the pool
RunsSequentially(kind) == requires_browser(kind)

\* (variant: one thread per submitted call)
WorkerFree_always(busy, workers) == TRUE

\* ThreadPoolExecutor(max_workers=...): a queued call starts only on a free
\* worker thread
WorkerFree(busy, workers) == busy < workers

\* (variant: an attempt is never taken as successful)
Succeeded_never(recs) == FALSE

\* `if records:` in run(): the attempt succeeded, stop trying strategies
Succeeded(recs) == recs # <<>>

\* (variant: a failing product is counted twice)
CountFailure_twice(n) == n + 2

\* `self.failed_products += 1` in either failure branch
CountFailure(n) == n + 1

TasksIn(phases) == {u \in Urls : task[u] \in phases}

\* scrape_product calls in progress
InProgress == Cardinality(TasksIn({"running"}))

\* A thread enters _scrape_single_product and calls strategy.scrape_product:
\* the loop thread for a browser strategy, a pool worker otherwise; URLs are
\* taken in sorted order
StartProduct(u) ==
    /\ pc = "dispatch"
    /\ task[u] = "queued"
    /\ \A v \in Urls : v < u => task[v] # "queued"
    /\ IF RunsSequentially(CurrentKind)
         THEN TasksIn({"running", "locked", "done"}) = {}
         ELSE WorkerFree(Cardinality(TasksIn({"running", "locked"})), max_workers)
    /\ task' = [task EXCEPT ![u] = "running"]
    /\ dispatched' = [dispatched EXCEPT ![u] = @ + 1]
    /\ dispatch_total' = dispatch_total + 1
    /\ scraped_by' = scraped_by \cup {CurrentStrategy}
    /\ UNCHANGED <<probe_vars, config_vars, manager_vars, pc, viable, cur,
                   listing, all_product_urls, product_urls, records, result,
                   ret, resource_vars, candidates, collected_by, yielded,
                   outcome, failures_seen, gathered_products, cleanups>>
    /\ UNCHANGED <<diagnostic, load_failed>>
    /\ UNCHANGED <<listing_results, listing_failed, lock_io>>

ProductOutcomes == {"records", "empty", "raise"}

\* strategy.scrape_product comes back (with records, with [], or by raising)
\* and the thread enters `with self._records_lock:`
ScrapeReturns(u, o) ==
    /\ pc = "dispatch"
    /\ task[u] = "running"
    /\ records_lock = 0
    /\ records_lock' = u
    /\ task' = [task EXCEPT ![u] = "locked"]
    /\ outcome' = [outcome EXCEPT ![u] = o]
    /\ result' = [result EXCEPT ![u] = IF o = "records" THEN ProductRecords(u)
                                                         ELSE <<>>]
    /\ yielded' = IF o = "records" THEN yielded \cup {CurrentStrategy}
                                   ELSE yielded
    /\ failures_seen' = IF o = "records" THEN failures_seen
                                         ELSE failures_seen + 1
    /\ UNCHANGED <<probe_vars, config_vars, all_records, failed_products,
                   skipped_products, strategy_used, existing_urls,
                   products_processed, client_open, pc, viable, cur, listing,
                   all_product_urls, product_urls, records, ret,
                   resource_vars, candidates, dispatched, collected_by,
                   scraped_by, gathered_products, cleanups>>
    /\ UNCHANGED <<diagnostic, load_failed>>
    /\ UNCHANGED <<listing_results, listing_failed, lock_io, dispatch_total>>

\* _incremental_save: nothing when all_records is empty, otherwise rewrite the
\* side file with all_records; a failed write is logged and leaves the file
IncrementalSave ==
    IF all_records = <<>>
      THEN UNCHANGED partial_file
      ELSE \E written \in BOOLEAN :
             partial_file' = IF written THEN Some(all_records) ELSE partial_file

\* (variant: a product with records is not counted)
CountProduct_skipped(n) == n

\* self._products_processed += 1
CountProduct(n) == n + 1

\* The body of `with self._records_lock:` in _scrape_single_product and the
\* return of the call: log the variants and count the product, checkpoint on
\* every save_interval-th one; or count the failure
HandleResult(u) ==
    /\ pc = "dispatch"
    /\ task[u] = "locked"
    /\ records_lock = u
    /\ IF outcome[u] = "records"
         THEN /\ products_processed' = CountProduct(products_processed)
              /\ gathered_products' = gathered_products \cup {u}
              /\ IF incremental /\ (products_processed + 1) % save_interval = 0
                   THEN IncrementalSave
                   ELSE UNCHANGED partial_file
              /\ lock_io' = lock_io \cup {"log"}
                              \cup (IF partial_file' # partial_file
                                      THEN {"checkpoint"} ELSE {})
              /\ UNCHANGED <<failed_products, outcome>>
         ELSE /\ failed_products' = CountFailure(failed_products)
              /\ outcome' = [outcome EXCEPT ![u] = "failed"]
              /\ UNCHANGED <<products_processed, gathered_products,
                             partial_file, lock_io>>
    /\ records_lock' = 0
    /\ task' = [task EXCEPT ![u] = "done"]
    /\ UNCHANGED <<probe_vars, config_vars, all_records, skipped_products,
                   strategy_used, existing_urls, client_open, pc, viable, cur,
                   listing, all_product_urls, product_urls, records, result,
                   ret, browser_held, candidates, dispatched, collected_by,
                   scraped_by, yielded, failures_seen, cleanups>>
    /\ UNCHANGED <<diagnostic, load_failed>>
    /\ UNCHANGED <<listing_results, listing_failed, dispatch_total>>

\* (variant: the result takes the place of the records gathered so far)
Extend_replacing(recs, res) == res

\* records.extend(result)
Extend(recs, res) == recs \o res

\* records.extend(result) in the thread running _run_with_strategy, in the
\* order the calls complete
Consume(u) ==
    /\ pc = "dispatch"
    /\ task[u] = "done"
    /\ records' = Extend(records, result[u])
    /\ task' = [task EXCEPT ![u] = "consumed"]
    /\ UNCHANGED <<probe_vars, config_vars, manager_vars, pc, viable, cur,
                   listing, all_product_urls, product_urls, result, ret,
                   resource_vars, history_vars>>
    /\ UNCHANGED <<diagnostic, load_failed>>

\* _run_with_strategy returns its records once every call was collected
ReturnRecords ==
    /\ pc = "dispatch"
    /\ \A u \in Urls : task[u] \in {"none", "consumed"}
    /\ pc' = "attempt_end"
    /\ UNCHANGED <<probe_vars, config_vars, manager_vars, viable, cur, listing,
                   all_product_urls, product_urls, records, task, result, ret,
                   resource_vars, history_vars>>
    /\ UNCHANGED <<diagnostic, load_failed>>

\* The rest of one iteration of the strategy loop of run(): keep the records
\* and stop when there are some, run strategy.cleanup() in the finally clause
\* (closing a held browser session may raise, and then nothing catches it),
\* move to the next strategy or leave the loop
\* (variant: the finally clause left out)
CallCleanup_skipped(n) == n

\* finally: strategy.cleanup(), counted per strategy
CallCleanup(n) == n + 1

\* (variant: the strategy tried is kept as strategy_used whatever it gave)
Winner_whatever_tried(won, s, used) == s

\* `if records: self.strategy_used = strategy`
Winner(won, s, used) == IF won THEN s ELSE used

AttemptEnd ==
    /\ pc = "attempt_end"
    /\ LET s    == CurrentStrategy
           won  == Succeeded(records)
       IN  /\ strategy_used' = Winner(won, s, strategy_used)
           /\ all_records' = IF won THEN records ELSE all_records
           /\ cleanups' = [cleanups EXCEPT ![s] = CallCleanup(@)]
           /\ \E closes \in BOOLEAN :
                /\ ~closes => requires_browser(strategies[s]) /\ browser_held[s]
                /\ IF ~closes
                     THEN /\ pc' = "raised"
                          /\ UNCHANGED <<browser_held, cur, listing,
                                         all_product_urls, product_urls,
                                         records, task, result, outcome,
                                         candidates, dispatched>>
                     ELSE /\ browser_held' = [browser_held EXCEPT ![s] = FALSE]
                          /\ IF won \/ cur = Len(viable)
                               THEN /\ pc' = "finish"
                                    /\ UNCHANGED <<cur, listing,
                                                   all_product_urls,
                                                   product_urls, records, task,
                                                   result, outcome, candidates,
                                                   dispatched>>
                               ELSE /\ pc' = "collect"
                                    /\ cur' = cur + 1
                                    /\ listing' = 1
                                    /\ all_product_urls' = {}
                                    /\ product_urls' = <<>>
                                    /\ records' = <<>>
                                    /\ task' = NoTasks
                                    /\ result' = NoResults
                                    /\ outcome' = NoOutcome
                                    /\ candidates' = {}
                                    /\ dispatched' = NoDispatch
    /\ UNCHANGED <<probe_vars, config_vars, failed_products, skipped_products,
                   existing_urls, products_processed, records_lock, client_open,
                   viable, ret, partial_file, collected_by, scraped_by, yielded,
                   failures_seen, gathered_products>>
    /\ UNCHANGED <<diagnostic, load_failed>>
    /\ UNCHANGED <<listing_results, listing_failed, lock_io, dispatch_total>>

\* After the loop: failure summary when there are no records, summary,
\* client.close(), return all_records
Finish ==
    /\ pc = "finish"
    /\ client_open' = FALSE
    /\ ret' = all_records
    /\ pc' = "returned"
    /\ UNCHANGED <<probe_vars, config_vars, all_records, failed_products,
                   skipped_products, strategy_used, existing_urls,
                   products_processed, records_lock, viable, cur, listing,
                   all_product_urls, product_urls, records, task, result,
                   resource_vars, history_vars>>
    /\ UNCHANGED <<diagnostic, load_failed>>

ProductInit ==
    /\ sp_kind = "none" /\ sp_pc = "idle" /\ attempt = 0 /\ sp_events = <<>>
    /\ sp_result = "none" /\ sp_cause = "none"
    /\ sp_delay_before = 0 /\ sp_calls = 0

\* No check made yet; the import of playwright.sync_api either works or
\* raises ImportError
CheckInit ==
    /\ import_broken = FALSE /\ secret_set = FALSE
    /\ probe_log = <<>> /\ probe_out = <<>> /\ probe_raised = FALSE

\* No scrape_product call has called the limiter
NoLimiterCalls == [u \in Urls |-> 0]
PoolInit == limiter_calls = NoLimiterCalls

\* PlaywrightStrategy.__init__: nothing held, nothing made
SessionInit ==
    /\ pw_playwright = 0 /\ pw_browser = 0 /\ pw_context = 0 /\ pw_page = 0
    /\ pw_made = 0
    /\ pw_open = {}
    /\ pw_log = <<>>

Init ==
    ManagerInit /\ DefaultLimiterInit /\ ProductInit /\ CheckInit /\ PoolInit
      /\ SessionInit

Next ==
    \/ RunStart /\ UNCHANGED beside_run
    \/ Collect /\ UNCHANGED beside_run
    \/ Filter /\ UNCHANGED beside_run
    \/ \E u \in Urls : StartProduct(u) /\ UNCHANGED beside_run
    \/ \E u \in Urls, o \in ProductOutcomes :
         ScrapeReturns(u, o) /\ UNCHANGED beside_run
    \/ \E u \in Urls : HandleResult(u) /\ UNCHANGED beside_run
    \/ \E u \in Urls : Consume(u) /\ UNCHANGED beside_run
    \/ ReturnRecords /\ UNCHANGED beside_run
    \/ AttemptEnd /\ UNCHANGED beside_run
    \/ Finish /\ UNCHANGED beside_run

Spec == Init /\ [][Next]_vars

\* run() up to the end of the listing loop, over the large catalogue
CollectNext ==
    \/ RunStart /\ UNCHANGED beside_run
    \/ CollectLarge /\ UNCHANGED beside_run

SpecCollect == Init /\ [][CollectNext]_vars

(***************************************************************************)
(* The rate limiter on its own: any number of threads calling its methods  *)
(* in any order, for each way it can be constructed.                       *)
(***************************************************************************)
LimiterSpecInit ==
    /\ LimiterInit
    /\ ManagerInit
    /\ ProductInit
    /\ CheckInit
    /\ PoolInit
    /\ SessionInit
    /\ ~is_replit /\ ~pw_installed
    /\ strategies = <<"requests">>
    /\ max_workers = NumLimiterThreads
    /\ ~skip_existing /\ ~incremental

LimiterNext ==
    \/ \E t \in LimiterThreads, op \in LimiterOps :
         RL_Acquire(t, op) /\ UNCHANGED beside_limiter
    \/ \E t \in LimiterThreads : record_success(t) /\ UNCHANGED beside_limiter
    \/ \E t \in LimiterThreads : record_rate_limit(t) /\ UNCHANGED beside_limiter
    \/ \E t \in LimiterThreads : record_error(t) /\ UNCHANGED beside_limiter
    \/ \E t \in LimiterThreads : wait_read(t) /\ UNCHANGED beside_limiter
    \/ \E t \in LimiterThreads : wait_wake(t) /\ UNCHANGED beside_limiter
    \/ \E t \in LimiterThreads : get_delay(t) /\ UNCHANGED beside_limiter

SpecLimiter == LimiterSpecInit /\ [][LimiterNext]_vars

(***************************************************************************)
(* One scrape_product call at a time, followed through its attempts, for   *)
(* both strategy variants, against the manager's rate limiter.             *)
(***************************************************************************)
StrategyKinds == {"requests", "playwright"}

\* What client.get and the extraction can do in one attempt of
\* RequestsStrategy.scrape_product
RequestsResponses == {"ok_records", "ok_empty", "extract_raises", "429", "5xx",
                      "4xx", "timeout", "conn_error"}

\* What the page load and the extraction can do in
\* PlaywrightStrategy.scrape_product
PlaywrightResponses == {"ok_records", "ok_empty", "extract_raises",
                        "page_timeout", "page_error"}

Ev(name, arg) == <<name, arg>>

Count(events, name) ==
    Cardinality({i \in 1..Len(events) : events[i][1] = name})

\* The limiter fields a call changes, as <<current_delay,
\* consecutive_successes>>, after each of its recording methods
AfterSuccess(l) ==
    IF StreakComplete(l[2] + 1) THEN <<SpeedUp(l[1], min_delay), 0>>
                                 ELSE <<l[1], l[2] + 1>>
AfterRateLimit(l) ==
    <<RateLimitSlowDown(l[1], max_delay), StreakAfterSlowDown(l[2])>>
AfterError(l) == <<ErrorSlowDown(l[1], max_delay), StreakAfterSlowDown(l[2])>>

\* (variant: one attempt more than max_retries)
MoreAttempts_one_more(a) == a < MAX_RETRIES

\* `attempt < max_retries - 1`: a failed attempt may be followed by another
MoreAttempts(a) == a < MAX_RETRIES - 1

\* (variant: the same sleep before every retry)
Backoff_constant(a) == 1

\* `time.sleep(2 ** attempt)`, in seconds
Backoff(a) == 2 ^ a

\* (variant: a 429 recorded but not waited for)
RateLimited_without_wait == <<Ev("status", 429), Ev("record_rate_limit", 0)>>

\* `if resp.status_code == 429:` record_rate_limit(), then wait()
RateLimited ==
    <<Ev("status", 429), Ev("record_rate_limit", 0), Ev("wait", 0)>>

\* One pass through the body of `for attempt in range(max_retries)`: what it
\* does, what it leaves in the limiter, and whether it returns or goes round
RequestsStep(resp, a, l) ==
    LET more == MoreAttempts(a)
        get  == Ev("get", a)
    IN  CASE resp = "429" ->
               [events |-> <<get>> \o RateLimited,
                lim |-> AfterRateLimit(l), done |-> ~more, result |-> "empty"]
          [] resp = "ok_records" ->
               [events |-> <<get, Ev("status", 200), Ev("record_success", 0),
                             Ev("extract", 1), Ev("wait", 0)>>,
                lim |-> AfterSuccess(l), done |-> TRUE, result |-> "records"]
          [] resp = "ok_empty" ->
               [events |-> <<get, Ev("status", 200), Ev("record_success", 0),
                             Ev("extract", 0)>>,
                lim |-> AfterSuccess(l), done |-> TRUE, result |-> "empty"]
          [] resp = "extract_raises" ->
               [events |-> <<get, Ev("status", 200), Ev("record_success", 0),
                             Ev("record_error", 0)>>,
                lim |-> AfterError(AfterSuccess(l)), done |-> TRUE,
                result |-> "empty"]
          [] resp = "5xx" ->
               IF more
                 THEN [events |-> <<get, Ev("status", 500),
                                    Ev("sleep", Backoff(a))>>,
                       lim |-> l, done |-> FALSE, result |-> "empty"]
                 ELSE [events |-> <<get, Ev("status", 500),
                                    Ev("record_error", 0)>>,
                       lim |-> AfterError(l), done |-> TRUE,
                       result |-> "empty"]
          [] resp = "4xx" ->
               [events |-> <<get, Ev("status", 404), Ev("record_error", 0)>>,
                lim |-> AfterError(l), done |-> TRUE, result |-> "empty"]
          [] resp = "timeout" ->
               [events |-> <<get, Ev("timeout", a)>>,
                lim |-> l, done |-> ~more, result |-> "empty"]
          [] resp = "conn_error" ->
               [events |-> <<get, Ev("raised", a), Ev("record_error", 0)>>,
                lim |-> AfterError(l), done |-> TRUE, result |-> "empty"]

\* The whole of PlaywrightStrategy.scrape_product
PlaywrightCall(resp) ==
    CASE resp = "ok_records" ->
           [events |-> <<Ev("goto", 0), Ev("extract", 1), Ev("wait", 0)>>,
            result |-> "records"]
      [] resp = "ok_empty" ->
           [events |-> <<Ev("goto", 0), Ev("extract", 0), Ev("wait", 0)>>,
            result |-> "empty"]
      [] resp = "extract_raises" ->
           [events |-> <<Ev("goto", 0), Ev("raised", 0)>>, result |-> "empty"]
      [] resp = "page_timeout" ->
           [events |-> <<Ev("goto", 0), Ev("timeout", 0)>>, result |-> "empty"]
      [] resp = "page_error" ->
           [events |-> <<Ev("goto", 0), Ev("raised", 0)>>, result |-> "empty"]

\* _scrape_single_product calls strategy.scrape_product
BeginProduct(kind) ==
    /\ sp_pc \in {"idle", "returned"}
    /\ sp_calls < MaxProductCalls
    /\ kind \in {strategies[i] : i \in 1..Len(strategies)}
    /\ sp_kind' = kind
    /\ sp_pc' = "request"
    /\ attempt' = 0
    /\ sp_events' = <<>>
    /\ sp_result' = "none" /\ sp_cause' = "none"
    /\ sp_delay_before' = current_delay
    /\ sp_calls' = sp_calls + 1
    /\ UNCHANGED limiter_vars

RequestsAttempt(resp) ==
    /\ sp_kind = "requests" /\ sp_pc = "request"
    /\ LET st == RequestsStep(resp, attempt,
                              <<current_delay, consecutive_successes>>)
       IN  /\ sp_events' = sp_events \o st.events
           /\ current_delay' = st.lim[1]
           /\ consecutive_successes' = st.lim[2]
           /\ IF st.done
                THEN /\ sp_pc' = "returned"
                     /\ sp_result' = st.result
                     /\ sp_cause' = resp
                     /\ UNCHANGED attempt
                ELSE /\ attempt' = attempt + 1
                     /\ UNCHANGED <<sp_pc, sp_result, sp_cause>>
    /\ UNCHANGED <<min_delay, max_delay, rl_lock, rl_pc, sp_kind,
                   sp_delay_before, sp_calls>>

PlaywrightProduct(resp) ==
    /\ sp_kind = "playwright" /\ sp_pc = "request"
    /\ LET c == PlaywrightCall(resp)
       IN  /\ sp_events' = sp_events \o c.events
           /\ sp_result' = c.result
    /\ sp_cause' = resp
    /\ sp_pc' = "returned"
    /\ UNCHANGED <<limiter_vars, sp_kind, attempt, sp_delay_before, sp_calls>>

\* A profile declaring both variants, with a launchable browser
ProductSpecInit ==
    /\ Init
    /\ ~is_replit /\ pw_installed
    /\ strategies = <<"requests", "playwright">>
    /\ max_workers = 1
    /\ ~skip_existing /\ ~incremental

ProductNext ==
    \/ \E kind \in StrategyKinds : BeginProduct(kind) /\ UNCHANGED beside_product
    \/ \E resp \in RequestsResponses :
         RequestsAttempt(resp) /\ UNCHANGED beside_product
    \/ \E resp \in PlaywrightResponses :
         PlaywrightProduct(resp) /\ UNCHANGED beside_product

SpecProduct == ProductSpecInit /\ [][ProductNext]_vars

\* A scrape_product call that has begun runs on: client.get answers or times
\* out (timeout=DEFAULT_TIMEOUT), and each sleep is finite
SpecProductFair == SpecProduct /\ WF_vars(ProductNext)

(***************************************************************************)
(* The EnvironmentProbe on its own: its checks made in any order, in every *)
(* environment, the one where the import of Playwright breaks included.    *)
(***************************************************************************)
ProbeChecks == {"is_replit", "playwright_available", "browser_available",
                "has_secret", "get_capabilities"}

\* playwright_available with nothing memoised runs the import, and only
\* ImportError is caught there
ImportRaises(p, broken) == p.pwc = None /\ broken

\* What every check does besides its own work
Checked(name) ==
    /\ Len(probe_log) < MaxProbeCalls
    /\ probe_log' = Append(probe_log, name)
    /\ UNCHANGED <<import_broken, secret_set>>

Returns(values) == probe_out' = values /\ probe_raised' = FALSE
Raises == probe_out' = <<>> /\ probe_raised' = TRUE

check_is_replit ==
    /\ Checked("is_replit")
    /\ Returns(<<is_replit>>)
    /\ UNCHANGED probe_vars

check_playwright_available ==
    /\ Checked("playwright_available")
    /\ IF ImportRaises(ProbeState, import_broken)
         THEN Raises /\ UNCHANGED probe_vars
         ELSE LET q == ReadPlaywright(ProbeState, pw_installed)
              IN  SetProbe(q) /\ Returns(<<ValueOf(q.pwc)>>)

\* (variant: browser_available without its memo)
check_browser_available_unmemoised ==
    /\ Checked("browser_available")
    /\ \E launch_ok \in BOOLEAN :
         IF ImportRaises(ProbeState, import_broken)
           THEN Raises /\ UNCHANGED probe_vars
           ELSE LET q == ReadBrowser([ProbeState EXCEPT !.bc = None],
                                     is_replit, pw_installed, launch_ok)
                IN  SetProbe(q) /\ Returns(<<BrowserValue(q)>>)

\* browser_available reads playwright_available outside its try block
check_browser_available ==
    /\ Checked("browser_available")
    /\ \E launch_ok \in BOOLEAN :
         IF browser_cache = None /\ ImportRaises(ProbeState, import_broken)
           THEN Raises /\ UNCHANGED probe_vars
           ELSE LET q == ReadBrowser(ProbeState, is_replit, pw_installed,
                                     launch_ok)
                IN  SetProbe(q) /\ Returns(<<BrowserValue(q)>>)

check_has_secret ==
    /\ Checked("has_secret")
    /\ Returns(<<secret_set>>)
    /\ UNCHANGED probe_vars

\* get_capabilities reads is_replit, playwright_available, browser_available
check_get_capabilities ==
    /\ Checked("get_capabilities")
    /\ \E launch_ok \in BOOLEAN :
         IF ImportRaises(ProbeState, import_broken)
           THEN Raises /\ UNCHANGED probe_vars
           ELSE LET q == ReadBrowser(ReadPlaywright(ProbeState, pw_installed),
                                     is_replit, pw_installed, launch_ok)
                IN  /\ SetProbe(q)
                    /\ Returns(<<is_replit, ValueOf(q.pwc), BrowserValue(q)>>)

\* The frame of a probe check
beside_probe == <<limiter_vars, config_vars, manager_vars, local_vars,
                  resource_vars, report_vars, history_vars, product_vars,
                  pool_vars, session_vars>>

ProbeSpecInit ==
    /\ ManagerInit /\ DefaultLimiterInit /\ ProductInit /\ PoolInit
    /\ SessionInit
    /\ strategies = <<"requests">> /\ max_workers = 1
    /\ ~skip_existing /\ ~incremental
    /\ import_broken \in BOOLEAN /\ (import_broken => ~pw_installed)
    /\ secret_set \in BOOLEAN
    /\ probe_log = <<>> /\ probe_out = <<>> /\ probe_raised = FALSE

ProbeNext ==
    \/ check_is_replit /\ UNCHANGED beside_probe
    \/ check_playwright_available /\ UNCHANGED beside_probe
    \/ check_browser_available /\ UNCHANGED beside_probe
    \/ check_has_secret /\ UNCHANGED beside_probe
    \/ check_get_capabilities /\ UNCHANGED beside_probe

SpecProbe == ProbeSpecInit /\ [][ProbeNext]_vars

(***************************************************************************)
(* run() with its threads followed into the rate limiter: the thread of    *)
(* each scrape_product call takes and releases AdaptiveRateLimiter.lock    *)
(* inside the call and _records_lock after it.                             *)
(***************************************************************************)
\* The limiter methods the scrape_product variants call
PoolOps == {"record_success", "record_rate_limit", "record_error", "wait"}

\* (variant: the limiter is also called from the body of
\* `with self._records_lock:`)
InsideScrape_or_locked(phase) == phase \in {"running", "locked"}

\* The thread is inside strategy.scrape_product, the one place of
\* _scrape_single_product from which limiter methods are called
InsideScrape(phase) == phase = "running"

\* scrape_product calls a limiter method, which starts by taking the lock
LimiterCall(u, op) ==
    /\ pc = "dispatch"
    /\ InsideScrape(task[u])
    /\ limiter_calls[u] < MaxLimiterCalls
    /\ RL_Acquire(u, op)
    /\ limiter_calls' = [limiter_calls EXCEPT ![u] = @ + 1]
    /\ UNCHANGED <<run_vars, product_vars, check_vars, session_vars>>

\* strategy.scrape_product returns once the limiter method it called did
PoolReturns(u, o) ==
    /\ rl_pc[u] = "idle"
    /\ ScrapeReturns(u, o)
    /\ limiter_calls' = [limiter_calls EXCEPT ![u] = 0]
    /\ UNCHANGED <<limiter_vars, product_vars, check_vars, session_vars>>

\* A profile run with the widest pool, each call's thread known to the
\* limiter by the URL it scrapes; the limiter is built with max_delay equal
\* to min_delay, so that its delay stays put and only the streak counts
PoolSpecInit ==
    /\ ManagerInit /\ ProductInit /\ CheckInit /\ PoolInit /\ SessionInit
    /\ min_delay = DEFAULT_MIN_DELAY /\ max_delay = DEFAULT_MIN_DELAY
    /\ current_delay = DEFAULT_MIN_DELAY
    /\ consecutive_successes = 0
    /\ rl_lock = 0
    /\ rl_pc = [u \in Urls |-> "idle"]
    /\ ~is_replit /\ ~pw_installed
    /\ strategies = <<"requests">>
    /\ max_workers = MaxWorkers
    /\ ~skip_existing /\ ~incremental

PoolNext ==
    \/ RunStart /\ UNCHANGED beside_run
    \/ Collect /\ UNCHANGED beside_run
    \/ Filter /\ UNCHANGED beside_run
    \/ \E u \in Urls : StartProduct(u) /\ UNCHANGED beside_run
    \/ \E u \in Urls, op \in PoolOps : LimiterCall(u, op)
    \/ \E u \in Urls : record_success(u) /\ UNCHANGED beside_limiter
    \/ \E u \in Urls : record_rate_limit(u) /\ UNCHANGED beside_limiter
    \/ \E u \in Urls : record_error(u) /\ UNCHANGED beside_limiter
    \/ \E u \in Urls : wait_read(u) /\ UNCHANGED beside_limiter
    \/ \E u \in Urls : wait_wake(u) /\ UNCHANGED beside_limiter
    \/ \E u \in Urls, o \in ProductOutcomes : PoolReturns(u, o)
    \/ \E u \in Urls : HandleResult(u) /\ UNCHANGED beside_run
    \/ \E u \in Urls : Consume(u) /\ UNCHANGED beside_run
    \/ ReturnRecords /\ UNCHANGED beside_run
    \/ AttemptEnd /\ UNCHANGED beside_run
    \/ Finish /\ UNCHANGED beside_run

SpecPool == PoolSpecInit /\ [][PoolNext]_vars

(***************************************************************************)
(* One PlaywrightStrategy, with _ensure_browser() and cleanup() called on  *)
(* it one after another; each call into Playwright returns or raises.      *)
(***************************************************************************)
\* The call of _ensure_browser that raises, "none" when none does
EnsureFailures == {"none", "start", "launch", "new_context", "new_page"}

\* The call of cleanup that raises, "none" when none does
CleanupFailures == {"none", "context", "browser", "playwright"}

\* The objects the fields of the strategy refer to
Held ==
    {<<"playwright", pw_playwright>>, <<"browser", pw_browser>>,
     <<"context", pw_context>>, <<"page", pw_page>>}
      \ {<<k, 0>> : k \in {"playwright", "browser", "context", "page"}}

\* What closing or stopping an object closes: a context its page, a browser
\* its context and page, the driver everything it started
ClosedWith(kind, n) ==
    CASE kind = "context" -> {<<"context", n>>, <<"page", n>>}
      [] kind = "browser" -> {<<"browser", n>>, <<"context", n>>, <<"page", n>>}
      [] OTHER -> {<<"playwright", n>>, <<"browser", n>>, <<"context", n>>,
                   <<"page", n>>}

Logged(op, raised, calls, launched) ==
    pw_log' = Append(pw_log, [op |-> op, raised |-> raised, calls |-> calls,
                              launched |-> launched])

\* _ensure_browser: nothing to do with a browser at hand; otherwise start the
\* driver, launch the browser, open a context and a page, each assigned as
\* soon as it is made
ensure_browser(fail) ==
    /\ Len(pw_log) < MaxSessionCalls
    /\ IF pw_browser # 0
         THEN /\ fail = "none"
              /\ Logged("_ensure_browser", FALSE, {}, FALSE)
              /\ UNCHANGED <<pw_playwright, pw_browser, pw_context, pw_page,
                             pw_made, pw_open>>
         ELSE LET n == pw_made + 1
                  started  == fail # "start"
                  launched == fail \notin {"start", "launch"}
                  context  == fail \notin {"start", "launch", "new_context"}
                  page     == fail = "none"
              IN  /\ pw_made' = IF started THEN n ELSE pw_made
                  /\ pw_playwright' = IF started THEN n ELSE pw_playwright
                  /\ pw_browser' = IF launched THEN n ELSE pw_browser
                  /\ pw_context' = IF context THEN n ELSE pw_context
                  /\ pw_page' = IF page THEN n ELSE pw_page
                  /\ pw_open' = pw_open
                       \cup (IF started THEN {<<"playwright", n>>} ELSE {})
                       \cup (IF launched THEN {<<"browser", n>>} ELSE {})
                       \cup (IF context THEN {<<"context", n>>} ELSE {})
                       \cup (IF page THEN {<<"page", n>>} ELSE {})
                  /\ Logged("_ensure_browser", fail # "none",
                            {"start"} \cup (IF started THEN {"launch"} ELSE {}),
                            launched)
    /\ UNCHANGED <<limiter_vars, run_vars, product_vars, check_vars, pool_vars>>

\* The fields cleanup() sets to None once its calls have returned
ClearedByCleanup == {"browser", "context", "page"}

\* cleanup: close the context, close the browser, stop the driver, each when
\* its field is set, then clear the fields; a call that raises ends cleanup
\* there, with the object it was made on as it was
cleanup(fail) ==
    /\ Len(pw_log) < MaxSessionCalls
    /\ fail = "context" => pw_context # 0
    /\ fail = "browser" => pw_browser # 0
    /\ fail = "playwright" => pw_playwright # 0
    /\ LET on_context == pw_context # 0
           on_browser == pw_browser # 0 /\ fail # "context"
           on_driver  == pw_playwright # 0 /\ fail \notin {"context", "browser"}
           calls == (IF on_context THEN {"context"} ELSE {})
                      \cup (IF on_browser THEN {"browser"} ELSE {})
                      \cup (IF on_driver THEN {"playwright"} ELSE {})
           closed == (IF on_context /\ fail # "context"
                        THEN ClosedWith("context", pw_context) ELSE {})
                      \cup (IF on_browser /\ fail # "browser"
                              THEN ClosedWith("browser", pw_browser) ELSE {})
                      \cup (IF on_driver /\ fail # "playwright"
                              THEN ClosedWith("playwright", pw_playwright)
                              ELSE {})
       IN  /\ pw_open' = pw_open \ closed
           /\ Logged("cleanup", fail # "none", calls, FALSE)
           /\ IF fail = "none"
                THEN /\ pw_browser' =
                          IF "browser" \in ClearedByCleanup THEN 0 ELSE pw_browser
                     /\ pw_context' =
                          IF "context" \in ClearedByCleanup THEN 0 ELSE pw_context
                     /\ pw_page' =
                          IF "page" \in ClearedByCleanup THEN 0 ELSE pw_page
                     /\ pw_playwright' =
                          IF "playwright" \in ClearedByCleanup
                            THEN 0 ELSE pw_playwright
                ELSE UNCHANGED <<pw_playwright, pw_browser, pw_context, pw_page>>
    /\ UNCHANGED pw_made
    /\ UNCHANGED <<limiter_vars, run_vars, product_vars, check_vars, pool_vars>>

SessionSpecInit ==
    /\ ManagerInit /\ DefaultLimiterInit /\ ProductInit /\ CheckInit
    /\ PoolInit /\ SessionInit
    /\ ~is_replit /\ pw_installed
    /\ strategies = <<"playwright">> /\ max_workers = 1
    /\ ~skip_existing /\ ~incremental

SessionNext ==
    \/ \E fail \in EnsureFailures : ensure_browser(fail)
    \/ \E fail \in CleanupFailures : cleanup(fail)

SpecSession == SessionSpecInit /\ [][SessionNext]_vars


(***************************************************************************)
(* Properties                                                              *)
(***************************************************************************)
Terminated == pc \in {"returned", "raised"}

\* What is left to do, as a number: of one scrape_product call, of the calls
\* of an attempt, of the attempt, of run()
CallRank(u) ==
    3 * (MaxLimiterCalls - limiter_calls[u])
      + (CASE rl_pc[u] = "idle" -> 0
           [] rl_pc[u] = "sleeping" -> 1
           [] OTHER -> 2)

MaxTaskRank == 3 * MaxLimiterCalls + 4

TaskRank(u) ==
    CASE task[u] = "queued"  -> MaxTaskRank
      [] task[u] = "running" -> 3 + CallRank(u)
      [] task[u] = "locked"  -> 2
      [] task[u] = "done"    -> 1
      [] OTHER               -> 0

RECURSIVE TasksRank(_)
TasksRank(S) ==
    IF S = {} THEN 0
    ELSE LET u == CHOOSE x \in S : TRUE
         IN  TaskRank(u) + TasksRank(S \ {u})

MaxAttemptRank == NumUrls * MaxTaskRank + 4 + NumListings

AttemptRank ==
    CASE pc = "collect"  -> NumUrls * MaxTaskRank + 4 + (NumListings - listing)
      [] pc = "filter"   -> NumUrls * MaxTaskRank + 3
      [] pc = "dispatch" -> TasksRank(Urls) + 2
      [] OTHER           -> 1

Rank ==
    CASE pc = "start"  -> Len(strategies) * MaxAttemptRank + 3
      [] pc = "finish" -> 1
      [] Terminated    -> 0
      [] OTHER         -> (Len(viable) - cur) * MaxAttemptRank + AttemptRank + 2

\* Records of a product that are in the checkpoint side file
InCheckpoint(u) ==
    /\ partial_file # None
    /\ \A i \in 1..Len(ProductRecords(u)) :
         \E j \in 1..Len(ValueOf(partial_file)) :
           ValueOf(partial_file)[j] = ProductRecords(u)[i]

\* C1: whatever the threads call on the limiter and in whatever order, its
\* delay stays between min_delay and max_delay.
C1_DelayWithinBounds ==
    min_delay <= current_delay /\ current_delay <= max_delay

\* The slow-downs drove the delay into the cap of a limiter with room to move.
C1_Witness ==
    min_delay < max_delay /\ current_delay = max_delay

\* C2: once scrape_product of a strategy returned records, no later strategy
\* of the profile has scrape_collection or scrape_product called on it, and
\* when run() is over that strategy is strategy_used.
C2_WinnerStopsRun ==
    \A s \in yielded :
      /\ \A t \in collected_by \cup scraped_by : t <= s
      /\ pc \in {"finish", "returned", "raised"} => strategy_used = s

\* run() returned the first strategy's records while a second viable strategy
\* was waiting.
C2_Witness ==
    /\ pc = "returned" /\ Len(viable) = 2
    /\ strategy_used = viable[1] /\ ret # <<>>
    /\ viable[2] \notin collected_by \cup scraped_by

\* C3: when no strategy yields a record, run() ends by returning [] with
\* strategy_used unset; it never ends by raising.
C3_NoResultsNeverRaises ==
    (Terminated /\ yielded = {})
      => (pc = "returned" /\ ret = <<>> /\ strategy_used = 0)

\* C4: in one strategy attempt scrape_product is called once for each
\* collected URL outside the skip-set and for no other URL.
C4_DispatchExactlyUnskipped ==
    /\ \A u \in Urls :
         /\ dispatched[u] <= 1
         /\ dispatched[u] > 0 => u \in candidates /\ u \notin existing_urls
    /\ pc = "attempt_end" =>
         /\ {u \in Urls : dispatched[u] = 1} = candidates \ existing_urls
         /\ Cardinality({u \in Urls : dispatched[u] = 1})
              = Cardinality(candidates)
                  - Cardinality(candidates \cap existing_urls)

\* An attempt ended in which some collected URLs were skipped and the others
\* were dispatched.
C4_Witness ==
    /\ pc = "attempt_end"
    /\ candidates \cap existing_urls # {}
    /\ candidates \ existing_urls # {}
    /\ \A u \in candidates \ existing_urls : task[u] = "consumed"

\* C5: whenever the processed-count stands at a multiple of save_interval,
\* the side file exists and holds exactly the records of the products
\* processed so far.
C5_CheckpointHoldsGathered ==
    (incremental /\ products_processed > 0
       /\ products_processed % save_interval = 0)
      => /\ partial_file # None
         /\ \A u \in gathered_products : InCheckpoint(u)
         /\ \A j \in 1..Len(ValueOf(partial_file)) :
              ValueOf(partial_file)[j][1] \in gathered_products

\* C6: with checkpointing enabled, at most save_interval - 1 processed
\* products have their records missing from the side file.
C6_LossBounded ==
    incremental =>
      Cardinality({u \in gathered_products : ~InCheckpoint(u)})
        <= save_interval - 1

\* C7: each scrape_product call that comes back without records adds exactly
\* one to failed_products once its handler ran, every dispatched URL is still
\* processed, and the only exception that ends run() is one from closing a
\* held browser.
C7_FailureAbsorbed ==
    /\ failed_products
         + Cardinality({u \in Urls : task[u] = "locked"
                                       /\ outcome[u] \in {"empty", "raise"}})
         = failures_seen
    /\ pc = "attempt_end" =>
         \A u \in all_product_urls : task[u] = "consumed"
    /\ pc = "raised" => /\ requires_browser(CurrentKind)
                        /\ browser_held[CurrentStrategy]

\* A run in which one product failed, yet another product's records were
\* returned.
C7_Witness ==
    /\ pc = "returned" /\ failed_products > 0 /\ ret # <<>>
    /\ \E u \in Urls : outcome[u] = "failed"

\* C8: while a browser strategy is dispatched, at most one scrape_product call
\* is in progress.
C8_BrowserOneAtATime ==
    (pc = "dispatch" /\ requires_browser(CurrentKind)) => InProgress <= 1

\* A browser strategy is fetching one product with another still waiting and
\* more than one worker configured.
C8_Witness ==
    /\ pc = "dispatch" /\ requires_browser(CurrentKind)
    /\ InProgress = 1 /\ TasksIn({"queued"}) # {} /\ max_workers > 1

\* C9: while a requests strategy is dispatched, the scrape_product calls in
\* progress never outnumber max_workers.
C9_PoolBounded ==
    (pc = "dispatch" /\ ~requires_browser(CurrentKind))
      => InProgress <= max_workers

\* Every worker of the pool is inside scrape_product and a URL is waiting.
C9_Witness ==
    /\ pc = "dispatch" /\ ~requires_browser(CurrentKind)
    /\ InProgress = max_workers /\ TasksIn({"queued"}) # {}

\* C10: in Replit, or without Playwright, browser_available never launches a
\* browser and never returns true.
C10_NoLaunchWhenBlocked ==
    (is_replit \/ ~pw_installed)
      => (launch_attempts = 0 /\ TRUE \notin ba_reads)

\* browser_available was read in Replit with Playwright installed.
C10_Witness ==
    is_replit /\ pw_installed /\ FALSE \in ba_reads /\ launch_attempts = 0

\* C11: when no strategy of the profile supports the environment, run()
\* returns [] at once: no strategy had scrape_collection, scrape_product or
\* cleanup called on it, and in a Replit environment the limitations printed
\* name Replit.
C11_NoViableReturnsAtOnce ==
    (pc # "start" /\ viable = <<>>)
      => /\ pc = "returned" /\ ret = <<>> /\ strategy_used = 0
         /\ collected_by = {} /\ scraped_by = {}
         /\ \A i \in StrategyIndexes : cleanups[i] = 0 /\ ~browser_held[i]
         /\ is_replit => "running in Replit" \in diagnostic

\* run() returned for a profile whose only strategy is the browser, in Replit
\* with Playwright installed.
C11_Witness ==
    /\ pc = "returned" /\ viable = <<>>
    /\ strategies = <<"playwright">> /\ is_replit /\ pw_installed
    /\ diagnostic # {}

\* C12: a record_rate_limit() or record_error() call never leaves
\* current_delay below what it was before the call.
C12_SlowDownNeverDecreases ==
    [][\A t \in LimiterThreads :
         (rl_pc[t] \in {"record_rate_limit", "record_error"}
            /\ rl_pc'[t] = "idle")
           => current_delay' >= current_delay]_vars

\* The default limiter after one rate-limit (0.3 -> 0.6) and one error
\* (0.6 -> 0.72).
C12_Witness ==
    /\ min_delay = DEFAULT_MIN_DELAY /\ max_delay = DEFAULT_MAX_DELAY
    /\ current_delay = 72

\* C13: a record_success() call never leaves current_delay above what it was
\* before the call.
C13_SuccessNeverIncreases ==
    [][\A t \in LimiterThreads :
         (rl_pc[t] = "record_success" /\ rl_pc'[t] = "idle")
           => current_delay' <= current_delay]_vars

\* A limiter between 1 and 7 holds 6: no slow-down from 1 lands there
\* without a speed-up having lowered the delay first.
C13_Witness ==
    /\ min_delay = 1 /\ max_delay = 7 /\ current_delay = 6
    /\ consecutive_successes = 0

\* C14: while and after the listing loop of one attempt, the collected URL
\* set is the union of the sets scrape_collection returned for the listings
\* visited: every URL some listing returned is in it, once however many
\* listings returned it, and nothing else is.
C14_CollectedIsUnion ==
    pc \in {"collect", "filter"}
      => all_product_urls = DOMAIN listing_results

\* Two listings were visited; one URL came back from both and another from
\* one of them only.
C14_Witness ==
    /\ pc = "filter" /\ listing = 2
    /\ \E u \in all_product_urls : listing_results[u] = 2
    /\ \E u \in all_product_urls : listing_results[u] = 1

\* C15: the URL set a strategy attempt carries from the listing loop into
\* skip-set filtering and dispatch holds at most 100 URLs.
C15_CollectedCapped ==
    pc = "filter" => Cardinality(all_product_urls) <= ProductLimit

\* C16: once computed, the viable list holds exactly the declared strategies
\* that support the environment (requests always, playwright iff
\* env.browser_available), in declared order, and the strategies attempted
\* are a front part of that list with none passed over.
C16_ViableInDeclaredOrder ==
    pc # "start" =>
      /\ \A i \in 1..Len(strategies) :
           (\E k \in 1..Len(viable) : viable[k] = i)
             <=> \/ strategies[i] = "requests"
                 \/ (browser_cache # None /\ ValueOf(browser_cache))
      /\ \A j, k \in 1..Len(viable) : j < k => viable[j] < viable[k]
      /\ viable # <<>> =>
           /\ collected_by \cup scraped_by
                \subseteq {viable[k] : k \in 1..cur}
           /\ \A k \in 1..(cur - 1) : viable[k] \in collected_by

\* The profile declares the browser strategy first, the environment cannot
\* launch a browser, and the requests strategy declared second was the one
\* whose scrape_product ran.
C16_Witness ==
    /\ strategies = <<"playwright", "requests">>
    /\ viable = <<2>> /\ 2 \in scraped_by

\* C17: cleanup() has been called exactly once on every strategy whose attempt
\* is over (so before the next strategy's attempt starts), and never on the
\* strategy still being attempted or on one not attempted.
C17_CleanupOncePerAttempt ==
    \A i \in StrategyIndexes :
      LET over == \E k \in 1..Len(viable) :
                    /\ viable[k] = i
                    /\ \/ k < cur
                       \/ k = cur /\ pc \in {"finish", "returned", "raised"}
      IN  /\ cleanups[i] = IF over THEN 1 ELSE 0
          /\ cleanups[i] > 0 => i \in collected_by

\* run() returned after two attempts, each cleaned up once.
C17_Witness ==
    /\ pc = "returned" /\ Len(viable) = 2 /\ cur = 2
    /\ cleanups[viable[1]] = 1 /\ cleanups[viable[2]] = 1

\* The fetch of the call that returned went through: a page came back
FetchSucceeded == sp_cause \in {"ok_records", "ok_empty", "extract_raises"}

\* The fetch of the call that returned failed, and not with a 429
FetchFailed ==
    sp_cause \in {"5xx", "4xx", "timeout", "conn_error", "page_timeout",
                  "page_error"}

\* C18: a scrape_product call that returned after a successful fetch called
\* record_success() exactly once, and one that returned after a fetch failing
\* with something other than a 429 called record_error(), in both variants.
C18_FetchOutcomeRecorded ==
    sp_pc = "returned" =>
      /\ FetchSucceeded => Count(sp_events, "record_success") = 1
      /\ FetchFailed => Count(sp_events, "record_error") >= 1

\* C19: a scrape_product call that returned [] because of a timeout, a 429
\* or another failed fetch called record_rate_limit() or record_error()
\* before returning, and after a call that ended in a timeout the delay is
\* above what it was before the call unless it was at max_delay already.
C19_EmptyAfterGovernorUpdate ==
    (sp_pc = "returned" /\ sp_result = "empty"
       /\ (FetchFailed \/ sp_cause = "429"))
      => /\ Count(sp_events, "record_rate_limit")
              + Count(sp_events, "record_error") >= 1
         /\ sp_cause \in {"timeout", "page_timeout"}
              => \/ current_delay > sp_delay_before
                 \/ sp_delay_before = max_delay

\* C20: a scrape_product call that returned records called wait() last before
\* returning, and one whose page yielded no records called wait() only for
\* the 429 responses it met on the way, in both variants.
C20_WaitOnlyAfterRecords ==
    sp_pc = "returned" =>
      /\ sp_result = "records"
           => sp_events[Len(sp_events)] = Ev("wait", 0)
      /\ sp_cause = "ok_empty"
           => Count(sp_events, "wait")
                = Cardinality({i \in 1..Len(sp_events) :
                                 sp_events[i] = Ev("status", 429)})

\* The check made last
LastCheck == probe_log[Len(probe_log)]

\* C21: no check of the probe raises, whatever goes wrong while probing, a
\* broken import of Playwright included; a check that cannot tell answers
\* False.
C21_ProbeNeverRaises ==
    /\ ~probe_raised
    /\ (probe_log # <<>> /\ import_broken
          /\ LastCheck \in {"playwright_available", "browser_available"})
         => probe_out = <<FALSE>>

\* C22: however often browser_available is read on one probe, the browser is
\* launched at most once and every read returns what the first returned.
C22_BrowserProbedOnce ==
    launch_attempts <= 1 /\ Cardinality(ba_reads) <= 1

\* browser_available was read twice in a row where a launch is due: one
\* launch, one value.
C22_Witness ==
    /\ Len(probe_log) >= 2
    /\ probe_log[1] = "browser_available"
    /\ probe_log[2] = "browser_available"
    /\ ~is_replit /\ pw_installed /\ ~probe_raised
    /\ launch_attempts = 1 /\ Cardinality(ba_reads) = 1

\* C23: a scrape_collection call that fails does not raise and adds nothing
\* to the collected set, and the listing loop goes on to the next listing or
\* to filtering and dispatch.
C23_FailedListingContributesNothing ==
    [][(pc = "collect" /\ listing_failed')
         => /\ all_product_urls' = all_product_urls
            /\ pc' \in {"collect", "filter"}]_vars

\* C24: when loading the previous output failed, the skip-set of the run is
\* empty.
C24_FailedLoadGivesEmptySkipSet ==
    load_failed => existing_urls = {}

\* C25: the record sequence being accumulated, the failed and skipped counts
\* and the processed-count change only in steps of a thread that holds
\* _records_lock.
C25_WritesUnderRecordsLock ==
    [][(\/ Len(records') > Len(records)
        \/ failed_products' # failed_products
        \/ skipped_products' # skipped_products
        \/ products_processed' # products_processed)
         => records_lock # 0]_vars

\* C26: no thread writes output while it holds _records_lock, the checkpoint
\* file included, and no thread sleeps in wait() while it holds the
\* limiter's lock.
C26_NoOutputUnderLock ==
    /\ lock_io = {}
    /\ \A t \in LimiterThreads : rl_pc[t] = "sleeping" => rl_lock # t

\* The requests made so far by the RequestsStrategy.scrape_product call
Requests == {i \in 1..Len(sp_events) : sp_events[i][1] = "get"}

\* The 429 responses the call has received so far
RateLimits == {i \in 1..Len(sp_events) : sp_events[i] = <<"status", 429>>}

\* C27: RequestsStrategy.scrape_product makes at most 3 requests for one URL
\* whatever the responses are, every request takes the next value of the one
\* attempt counter, and a call that has begun returns.
C27_AtMostThreeRequests ==
    /\ [](sp_kind = "requests" =>
            /\ Cardinality(Requests) <= 3
            /\ \A i \in Requests :
                 sp_events[i][2] = Cardinality({j \in Requests : j < i}))
    /\ (sp_pc = "request") ~> (sp_pc = "returned")

\* Three requests made, after a 429, then a 5xx, then a timeout
C27_Witness ==
    /\ sp_kind = "requests" /\ sp_pc = "returned"
    /\ Cardinality(Requests) = 3
    /\ RateLimits # {}
    /\ Count(sp_events, "sleep") = 1
    /\ sp_cause = "timeout"

\* C28: every 429 is followed by one record_rate_limit() and then one wait()
\* before the next request; records returned after a 429 are the result of
\* the call (so _scrape_single_product counts no failure); a call ended by a
\* 429 returns empty and has used all 3 attempts.
C28_RateLimitRecordedAndWaited ==
    sp_kind = "requests" =>
      /\ \A i \in RateLimits :
           /\ i + 2 <= Len(sp_events)
           /\ sp_events[i + 1] = <<"record_rate_limit", 0>>
           /\ sp_events[i + 2] = <<"wait", 0>>
           /\ i + 3 <= Len(sp_events) => sp_events[i + 3][1] = "get"
      /\ Count(sp_events, "record_rate_limit") = Cardinality(RateLimits)
      /\ (sp_pc = "returned" /\ sp_cause = "ok_records")
           => sp_result = "records"
      /\ (sp_pc = "returned" /\ sp_cause = "429")
           => sp_result = "empty" /\ Cardinality(Requests) = 3

\* Records returned by the third request, after two 429 responses
C28_Witness ==
    /\ sp_kind = "requests" /\ sp_pc = "returned"
    /\ Cardinality(RateLimits) = 2
    /\ sp_result = "records"

\* C29: a call that ended on a timeout, a 5xx or a connection failure made
\* all 3 attempts before it returned empty.
C29_TransientFailuresRetried ==
    (sp_kind = "requests" /\ sp_pc = "returned"
       /\ sp_cause \in {"timeout", "5xx", "conn_error"})
      => sp_result = "empty" /\ Cardinality(Requests) = 3

\* C30: a 5xx on attempt a with attempts remaining is followed by a sleep of
\* 2^a seconds and then request a + 1; a timeout with attempts remaining is
\* followed by request a + 1 at once; a 5xx or a timeout on the last attempt
\* makes the call return empty.
C30_BackoffThenRetry ==
    sp_kind = "requests" =>
      /\ \A i \in Requests :
           LET a == sp_events[i][2]
               n == Len(sp_events)
           IN  (a < 2 /\ i < n) =>
                 /\ sp_events[i + 1] = <<"status", 500>> =>
                      /\ i + 2 <= n /\ sp_events[i + 2] = <<"sleep", 2 ^ a>>
                      /\ IF i + 2 = n THEN sp_pc = "request"
                                      ELSE sp_events[i + 3] = <<"get", a + 1>>
                 /\ sp_events[i + 1] = <<"timeout", a>> =>
                      IF i + 1 = n THEN sp_pc = "request"
                                   ELSE sp_events[i + 2] = <<"get", a + 1>>
      /\ \A i \in Requests :
           (/\ sp_events[i][2] = 2 /\ i < Len(sp_events)
            /\ sp_events[i + 1] \in {<<"status", 500>>, <<"timeout", 2>>})
             => sp_pc = "returned" /\ sp_result = "empty"

\* A 5xx (slept 1 s), a second 5xx (slept 2 s), then a timeout on the last
\* attempt
C30_Witness ==
    /\ sp_kind = "requests" /\ sp_pc = "returned"
    /\ Count(sp_events, "sleep") = 2
    /\ sp_cause = "timeout" /\ sp_result = "empty"

\* C31: consecutive_successes stays in 0..9; a record_success() call made
\* with 9 successes counted sets current_delay to max(min_delay, 0.9 *
\* current_delay), in whole hundredths of a second, and the counter to 0; any
\* other record_success() call adds one to the counter and leaves
\* current_delay alone.
C31_TenthSuccessSpeedsUp ==
    /\ [](consecutive_successes \in 0..9)
    /\ [][\A t \in LimiterThreads :
            (rl_pc[t] = "record_success" /\ rl_pc'[t] = "idle") =>
              IF consecutive_successes = 9
                THEN /\ consecutive_successes' = 0
                     /\ current_delay' >= min_delay
                     /\ \/ current_delay' = min_delay
                        \/ 10 * current_delay' <= 9 * current_delay
                     /\ 10 * (current_delay' + 1) > 9 * current_delay
                ELSE /\ consecutive_successes' = consecutive_successes + 1
                     /\ current_delay' = current_delay]_vars

\* A limiter between 1.0 and 1.5 holds 1.35: the delay was at the cap and a
\* tenth success took a tenth off it.
C31_Witness ==
    /\ min_delay = 100 /\ max_delay = 150 /\ current_delay = 135
    /\ consecutive_successes = 0

\* C32: record_rate_limit() sets current_delay to min(max_delay, 2 *
\* current_delay) and record_error() to min(max_delay, 1.2 * current_delay),
\* in whole hundredths of a second, and each sets consecutive_successes to 0.
C32_SlowDownsResetStreak ==
    [][\A t \in LimiterThreads :
         /\ (rl_pc[t] = "record_rate_limit" /\ rl_pc'[t] = "idle") =>
              /\ consecutive_successes' = 0
              /\ current_delay' <= max_delay
              /\ current_delay' <= 2 * current_delay
              /\ current_delay' = max_delay \/ current_delay' = 2 * current_delay
         /\ (rl_pc[t] = "record_error" /\ rl_pc'[t] = "idle") =>
              /\ consecutive_successes' = 0
              /\ current_delay' <= max_delay
              /\ 10 * current_delay' <= 12 * current_delay
              /\ \/ current_delay' = max_delay
                 \/ 10 * (current_delay' + 1) > 12 * current_delay]_vars

\* The default limiter back at a streak of zero with the delay an error left
\* (0.3 -> 0.36), three successes counted after it
C32_Witness ==
    /\ min_delay = DEFAULT_MIN_DELAY /\ max_delay = DEFAULT_MAX_DELAY
    /\ current_delay = 36 /\ consecutive_successes = 3

\* C33: when a strategy's attempt ends with no collected URL outside the
\* skip-set, scrape_product was not called for that strategy and the attempt
\* has no records; run() goes on to the next viable strategy, or leaves the
\* loop with no records and no strategy_used when there is none.
C33_NothingToScrapeMovesOn ==
    [][(/\ pc = "attempt_end"
        /\ \/ candidates = {}
           \/ skip_existing /\ candidates \subseteq existing_urls)
         => /\ dispatched = NoDispatch
            /\ CurrentStrategy \notin scraped_by
            /\ records = <<>>
            /\ IF cur < Len(viable)
                 THEN pc' = "collect" /\ cur' = cur + 1
                 ELSE /\ pc' = "finish"
                      /\ all_records' = <<>> /\ strategy_used' = 0]_vars

\* C39: when run() has returned, the HTTP client made in __init__ is closed.
C39_ClientClosedOnReturn ==
    pc = "returned" => ~client_open

\* C34: once every scrape_product call of an attempt has come back, and so
\* at the end of run(), failed_products plus _products_processed is the
\* number of scrape_product calls made over all the strategies attempted.
C34_EveryDispatchCountedOnce ==
    (pc \in {"attempt_end", "finish"} \/ Terminated)
      => failed_products + products_processed = dispatch_total

\* run() returned after a pool of two workers scraped three products, one of
\* them failing
C34_Witness ==
    /\ pc = "returned" /\ max_workers = 2
    /\ dispatch_total = 3 /\ failed_products = 1 /\ products_processed = 2

\* The products whose scrape_product call returned records in the attempt
\* run() ended on
Productive == {u \in Urls : outcome[u] = "records"}

\* C35: the list run() returns is made of the lists scrape_product returned
\* for the dispatched URLs of the last attempt, each of them whole, in one
\* piece and in its own order, once, and of nothing else.
C35_ReturnedIsConcatenation ==
    pc = "returned" =>
      /\ \A i \in 1..Len(ret) : ret[i][1] \in Productive
      /\ \A u \in Productive :
           /\ dispatched[u] = 1
           /\ Cardinality({i \in 1..Len(ret) : ret[i][1] = u})
                = Len(ProductRecords(u))
           /\ \E off \in 0..Len(ret) :
                \A k \in 1..Len(ProductRecords(u)) :
                  /\ off + k <= Len(ret)
                  /\ ret[off + k] = ProductRecords(u)[k]

\* Two pool workers; the call for product 2 was collected before the one for
\* product 1, whose two records follow it.
C35_Witness ==
    /\ pc = "returned" /\ max_workers = 2
    /\ ret = << <<2, 1>>, <<1, 1>>, <<1, 2>> >>

\* C36: when run() has returned, strategy_used is set exactly when the list
\* returned is not empty, and then it is the strategy of the last attempt,
\* the only one whose scrape_product returned records: no strategy before it
\* in viable order gave any.
C36_WinnerIsFirstProductive ==
    pc = "returned" =>
      /\ strategy_used # 0 <=> ret # <<>>
      /\ strategy_used # 0 =>
           /\ strategy_used = viable[cur]
           /\ yielded = {strategy_used}
           /\ \A k \in 1..(cur - 1) : viable[k] \notin yielded
           /\ \A i \in 1..Len(ret) : outcome[ret[i][1]] = "records"

\* The second viable strategy won after the first was tried and gave nothing.
C36_Witness ==
    /\ pc = "returned" /\ cur = 2 /\ viable[1] \in scraped_by
    /\ strategy_used = viable[2] /\ ret # <<>>

\* C37: run() comes to an end: every step of it and of its threads brings the
\* end nearer and, until run() has returned or raised, a step can be taken;
\* no thread holds _records_lock and the limiter's lock together, and both
\* are free when run() is over.
C37_RunTerminates ==
    /\ [](\A u \in Urls : ~(records_lock = u /\ rl_lock = u))
    /\ [](Terminated => records_lock = 0 /\ rl_lock = 0)
    /\ [](Rank >= 0)
    /\ [](~Terminated => ENABLED PoolNext)
    /\ [][Rank' < Rank]_vars

\* One pool thread sleeps in wait() while another holds _records_lock and a
\* third call is still queued.
C37_Witness ==
    /\ pc = "dispatch" /\ ~requires_browser(CurrentKind)
    /\ \E u, v \in Urls :
         /\ rl_pc[u] = "sleeping" /\ task[u] = "running"
         /\ records_lock = v /\ v # u
    /\ TasksIn({"queued"}) # {}

\* C38: when cleanup() has returned, the driver, the browser, the context and
\* the page the strategy held are closed and its four fields are None; a
\* cleanup() called right after one that returned makes no close or stop
\* call; an _ensure_browser() called right after one that returned, and
\* returning itself, leaves the four fields on one session made by that call
\* and open; between two browser launches there is a cleanup().
C38_CleanupReleasesAll ==
    /\ [][(Len(pw_log') > Len(pw_log) /\ pw_log'[Len(pw_log')].op = "cleanup"
             /\ ~pw_log'[Len(pw_log')].raised)
            => /\ Held \cap pw_open' = {}
               /\ pw_playwright' = 0 /\ pw_browser' = 0
               /\ pw_context' = 0 /\ pw_page' = 0]_vars
    /\ [](\A i \in 1..(Len(pw_log) - 1) :
            (pw_log[i].op = "cleanup" /\ ~pw_log[i].raised
               /\ pw_log[i + 1].op = "cleanup")
              => pw_log[i + 1].calls = {})
    /\ [][(/\ Len(pw_log) > 0 /\ Len(pw_log') > Len(pw_log)
           /\ pw_log[Len(pw_log)].op = "cleanup" /\ ~pw_log[Len(pw_log)].raised
           /\ pw_log'[Len(pw_log')].op = "_ensure_browser"
           /\ ~pw_log'[Len(pw_log')].raised)
            => /\ pw_log'[Len(pw_log')].launched
               /\ pw_browser' > pw_made
               /\ pw_playwright' = pw_browser' /\ pw_context' = pw_browser'
               /\ pw_page' = pw_browser'
               /\ ClosedWith("playwright", pw_browser') \subseteq pw_open']_vars
    /\ [](\A i, j \in 1..Len(pw_log) :
            (i < j /\ pw_log[i].launched /\ pw_log[j].launched)
              => \E k \in (i + 1)..(j - 1) : pw_log[k].op = "cleanup")

====
